---------------------------- MODULE Spec2Model ----------------------------
(***************************************************************************)
(* Control flow graph construction (tangent/cfg.py, class CFG) and the     *)
(* forward dataflow engine with its three analyses (class Forward,         *)
(* ReachingDefinitions, Defined, Active) of naylor-b/tangent.              *)
(*                                                                         *)
(* A CFG node is a natural number, its identity: node k is the k-th Node   *)
(* object created by build_cfg.  Every Node wraps its own AST object, so   *)
(* the annotation store, which the code keys by the wrapped AST object, is *)
(* keyed here by the node's number.                                        *)
(***************************************************************************)
EXTENDS Integers, Sequences, FiniteSets, TLC

VARIABLES
  fn,        \* the function definition handed to forward / build_cfg
  analysis,  \* the Forward object
  pc,        \* "start", "built", "run", "done", or "raised" after an exception
  cfg,       \* the CFG object build_cfg returned
  anno,      \* the annotation store: <<node, key>> -> value
  stack,     \* the frames of the recursive calls of Forward.visit
  raised,    \* the exception that left forward or build_cfg, "" when none
  visits,    \* history: the number of calls of Forward.visit so far
  batch,     \* the tree forward walks: its functions, the position of the walk,
             \* and the annotations of the functions the walk is done with
  factory    \* a call of a function of create.py: its arguments, the namer,
             \* the annotations of the nodes it made, and its outcome

vars == <<fn, analysis, pc, cfg, anno, stack, raised, visits, batch, factory>>

(***************************************************************************)
(* Bounds of the model.                                                    *)
(***************************************************************************)
\* statements in a function body of the construction specification SpecCfg
MaxStmts == 4
\* statements in a function body of the dataflow specification Spec
MaxFlowStmts == 3
\* handlers of one exception-handling block
MaxHandlers == 2
\* depth of the recursion of Forward.visit
MaxStack == 24
\* functions in the tree forward is given
MaxBatch == 3

Range(s) == {s[i] : i \in DOMAIN s}

(***************************************************************************)
(* The abstract syntax tree: every AST object is a record whose field type *)
(* is its class.                                                           *)
(***************************************************************************)
Name(id) == [type |-> "Name", id |-> id]
Num == [type |-> "Num"]
BinOp(l, r) == [type |-> "BinOp", left |-> l, right |-> r]
Attribute(v, a) == [type |-> "Attribute", value |-> v, attr |-> a]
Call(f, a, resolved) == [type |-> "Call", func |-> f, args |-> a, resolved |-> resolved]

Assign(targets, value) == [type |-> "Assign", targets |-> targets, value |-> value]
ExprStmt(value) == [type |-> "Expr", value |-> value]
If(test, body, orelse) == [type |-> "If", test |-> test, body |-> body, orelse |-> orelse]
While(test, body, orelse) == [type |-> "While", test |-> test, body |-> body, orelse |-> orelse]
For(target, body, orelse) == [type |-> "For", target |-> target, body |-> body, orelse |-> orelse]
AsyncFor(target, body, orelse) ==
  [type |-> "AsyncFor", target |-> target, body |-> body, orelse |-> orelse]
Break == [type |-> "Break"]
Continue == [type |-> "Continue"]
Try(body, handlers, orelse, finalbody) ==
  [type |-> "Try", body |-> body, handlers |-> handlers, orelse |-> orelse,
   finalbody |-> finalbody]
Arguments(args) == [type |-> "arguments", args |-> args]
FunctionDef(args, body) == [type |-> "FunctionDef", args |-> args, body |-> body]
\* the value of the sentinel exit node
None == [type |-> "NoneType"]

\* grammar.CONTROL_FLOW: the statement classes visit_statements hands to the
\* visitor; class CFG has no method for AsyncFor
CONTROL_FLOW == {"For", "AsyncFor", "While", "If", "Try", "Break", "Continue"}

(***************************************************************************)
(* The function bodies the specifications analyse: every body of a given   *)
(* number of statements over a set of plain statements.  A break or a      *)
(* continue occurs only inside a loop, an exception-handling block has a   *)
(* handler or a finally clause, and an else clause only with a handler, as *)
(* the Python grammar demands.                                             *)
(***************************************************************************)
RECURSIVE BlocksOf(_, _, _), StmtsOf(_, _, _), HandlersOf(_, _, _, _)

\* the blocks of exactly n statements (nested ones included)
BlocksOf(n, inLoop, plain) ==
  IF n = 0 THEN {<<>>}
  ELSE UNION { { <<s>> \o rest : s \in StmtsOf(k, inLoop, plain),
                                 rest \in BlocksOf(n - k, inLoop, plain) } : k \in 1..n }

\* the lists of exactly count handler bodies, none empty, of n statements in all
HandlersOf(n, count, inLoop, plain) ==
  IF count = 0 THEN (IF n = 0 THEN {<<>>} ELSE {})
  ELSE UNION { { <<h>> \o rest : h \in BlocksOf(k, inLoop, plain),
                                 rest \in HandlersOf(n - k, count - 1, inLoop, plain) }
               : k \in 1..n }

\* the statements of exactly k statements, the statement itself included
StmtsOf(k, inLoop, plain) ==
  IF k = 1 THEN plain \cup (IF inLoop THEN {Break, Continue} ELSE {})
  ELSE
    LET m == k - 1
        ifs == UNION { { If(Name("c"), b, e) : b \in BlocksOf(a, inLoop, plain),
                                               e \in BlocksOf(m - a, inLoop, plain) }
                       : a \in 1..m }
        whiles == UNION { { While(Name("c"), b, e) : b \in BlocksOf(a, TRUE, plain),
                                                     e \in BlocksOf(m - a, inLoop, plain) }
                          : a \in 1..m }
        fors == UNION { { For(Name("i"), b, e) : b \in BlocksOf(a, TRUE, plain),
                                                 e \in BlocksOf(m - a, inLoop, plain) }
                        : a \in 1..m }
        shapes == { t \in (0..m) \X (0..m) \X (0..MaxHandlers) \X (0..m) \X (0..m) :
                      /\ t[1] >= 1
                      /\ t[1] + t[2] + t[4] + t[5] = m
                      /\ (t[3] = 0) => (t[2] = 0 /\ t[4] = 0 /\ t[5] >= 1)
                      /\ (t[3] > 0) => (t[2] >= t[3]) }
        trys == UNION { { Try(b, h, e, f) : b \in BlocksOf(t[1], inLoop, plain),
                                            h \in HandlersOf(t[2], t[3], inLoop, plain),
                                            e \in BlocksOf(t[4], inLoop, plain),
                                            f \in BlocksOf(t[5], inLoop, plain) }
                        : t \in shapes }
    IN ifs \cup whiles \cup fors \cup trys

\* the bodies of at most n statements
Bodies(n, plain) == UNION { BlocksOf(k, FALSE, plain) : k \in 0..n }

\* the parameter list of every function analysed: def f(x)
Params == Arguments(<<Name("x")>>)

\* y = x + 1
AssignYX == Assign(<<Name("y")>>, BinOp(Name("x"), Num))

\* the functions of at most n statements whose plain statements are y = x + 1
CfgFunctions(n) == { FunctionDef(Params, b) : b \in Bodies(n, {AssignYX}) }

(***************************************************************************)
(* class CFG.  The builder object is a record: value and next are the      *)
(* fields of the Node objects created so far (node k is the k-th created), *)
(* head, break_ and continue_ are the builder's lists, err is the          *)
(* exception that ended the construction ("" when none).  log is a history *)
(* of the construction, which the code does not keep: one record per       *)
(* conditional, loop, break, continue and exception-handling block         *)
(* visited, holding the frontiers the builder had at that point.           *)
(***************************************************************************)
\* Node(value): a new node, with no successor and no predecessor
Node(B, value) ==
  [B EXCEPT !.value = Append(@, value), !.next = Append(@, {})]

\* the node the next call of Node creates
NewNode(B) == Len(B.value) + 1

\* a set_head that keeps the former leaves in the frontier
set_head_keep(B, node) ==
  [B EXCEPT !.next = [h \in DOMAIN B.next |->
                        IF h \in Range(B.head) THEN B.next[h] \cup {node} ELSE B.next[h]],
            !.head = Append(@, node)]

\* CFG.set_head: link the node to the current leaves
set_head(B, node) ==
  [B EXCEPT !.next = [h \in DOMAIN B.next |->
                        IF h \in Range(B.head) THEN B.next[h] \cup {node} ELSE B.next[h]],
            !.head = <<node>>]

\* whether the last statement of a block is a break or a continue
EndsInJump(nodes) ==
  nodes # <<>> /\ nodes[Len(nodes)].type \in {"Break", "Continue"}

RECURSIVE visit_statements(_, _)

\* CFG.visit_If
visit_If(B, node) ==
  LET test == NewNode(B)
      B1 == set_head(Node(B, node.test), test)
      B2 == visit_statements(B1, node.body)
      body_exit == B2.head
      B3 == visit_statements([B2 EXCEPT !.head = <<test>>], node.orelse)
  IN [B3 EXCEPT !.head = B3.head \o body_exit,
                !.log = Append(@, [type |-> "if", test |-> test,
                                   bodyExit |-> body_exit, elseExit |-> B3.head,
                                   elseEmpty |-> (node.orelse = <<>>),
                                   bodyJump |-> EndsInJump(node.body),
                                   elseJump |-> EndsInJump(node.orelse)])]

\* the history record of a loop
LoopRecord(kind, header, afterBody, afterElse, orelse) ==
  [type |-> "loop", kind |-> kind, header |-> header,
   bodyEnd |-> afterBody.head,
   conts |-> afterBody.continue_[Len(afterBody.continue_)],
   breaks |-> afterElse.break_[Len(afterElse.break_)],
   bodyHi |-> Len(afterBody.value),
   hasElse |-> (orelse # <<>>),
   elseFirst |-> (IF orelse = <<>> THEN "" ELSE orelse[1].type),
   elseHi |-> Len(afterElse.value),
   elseExit |-> afterElse.head]

\* a visit_While that drops the nodes its continue statements collected
visit_While_drop(B, node) ==
  LET test == NewNode(B)
      B1 == set_head(Node(B, node.test), test)
      B2 == [B1 EXCEPT !.break_ = Append(@, <<>>), !.continue_ = Append(@, <<>>)]
      B3 == visit_statements(B2, node.body)
      B4 == [B3 EXCEPT !.continue_ = SubSeq(@, 1, Len(@) - 1)]
      B5 == set_head(B4, test)
      B6 == visit_statements(B5, node.orelse)
  IN [B6 EXCEPT !.head = @ \o B6.break_[Len(B6.break_)],
                !.break_ = SubSeq(@, 1, Len(@) - 1),
                !.log = Append(@, LoopRecord("While", test, B3, B6, node.orelse))]

\* CFG.visit_While
visit_While(B, node) ==
  LET test == NewNode(B)
      B1 == set_head(Node(B, node.test), test)
      B2 == [B1 EXCEPT !.break_ = Append(@, <<>>), !.continue_ = Append(@, <<>>)]
      B3 == visit_statements(B2, node.body)
      B4 == [B3 EXCEPT !.head = @ \o B3.continue_[Len(B3.continue_)],
                       !.continue_ = SubSeq(@, 1, Len(@) - 1)]
      B5 == set_head(B4, test)
      B6 == visit_statements(B5, node.orelse)
  IN [B6 EXCEPT !.head = @ \o B6.break_[Len(B6.break_)],
                !.break_ = SubSeq(@, 1, Len(@) - 1),
                !.log = Append(@, LoopRecord("While", test, B3, B6, node.orelse))]

\* CFG.visit_For
visit_For(B, node) ==
  LET iter_ == NewNode(B)
      B1 == set_head(Node(B, node), iter_)
      B2 == [B1 EXCEPT !.break_ = Append(@, <<>>), !.continue_ = Append(@, <<>>)]
      B3 == visit_statements(B2, node.body)
      B4 == [B3 EXCEPT !.head = @ \o B3.continue_[Len(B3.continue_)],
                       !.continue_ = SubSeq(@, 1, Len(@) - 1)]
      B5 == set_head(B4, iter_)
  IN [B5 EXCEPT !.head = @ \o B5.break_[Len(B5.break_)],
                !.break_ = SubSeq(@, 1, Len(@) - 1),
                !.log = Append(@, LoopRecord("For", iter_, B3, B5, node.orelse))]

\* CFG.visit_Break; break_[-1] of an empty list raises IndexError
visit_Break(B, node) ==
  IF B.break_ = <<>> THEN [B EXCEPT !.err = "IndexError"]
  ELSE [B EXCEPT !.break_[Len(B.break_)] = @ \o B.head,
                 !.head = <<>>,
                 !.log = Append(@, [type |-> "break", collected |-> B.head])]

\* CFG.visit_Continue; continue_[-1] of an empty list raises IndexError
visit_Continue(B, node) ==
  IF B.continue_ = <<>> THEN [B EXCEPT !.err = "IndexError"]
  ELSE [B EXCEPT !.continue_[Len(B.continue_)] = @ \o B.head,
                 !.head = <<>>,
                 !.log = Append(@, [type |-> "continue", collected |-> B.head])]

RECURSIVE visit_handlers(_, _, _, _, _)
\* a loop over node.handlers that visits each handler from the frontier the
\* handler before it left
visit_handlers_chained(B, body, handlerList, acc, recs) ==
  IF handlerList = <<>> \/ B.err # "" THEN [B EXCEPT !.head = acc, !.hrecs = recs]
  ELSE LET B1 == visit_statements([B EXCEPT !.head = body], Head(handlerList))
           rec == [from |-> body, lo |-> NewNode(B), hi |-> Len(B1.value),
                   first |-> Head(handlerList)[1].type, exits |-> B1.head]
       IN visit_handlers(B1, B1.head, Tail(handlerList), acc \o B1.head, Append(recs, rec))

\* the loop over node.handlers of CFG.visit_Try; acc is the list handlers,
\* recs the history of the handlers visited so far
visit_handlers(B, body, handlerList, acc, recs) ==
  IF handlerList = <<>> \/ B.err # "" THEN [B EXCEPT !.head = acc, !.hrecs = recs]
  ELSE LET B1 == visit_statements([B EXCEPT !.head = body], Head(handlerList))
           rec == [from |-> body, lo |-> NewNode(B), hi |-> Len(B1.value),
                   first |-> Head(handlerList)[1].type, exits |-> B1.head]
       IN visit_handlers(B1, body, Tail(handlerList), acc \o B1.head, Append(recs, rec))

\* the history record of an exception-handling block
TryRecord(start, body, handlers, afterHandlers, afterElse, afterFinal, node) ==
  [type |-> "try", bodyExit |-> body, handlerExits |-> handlers,
   handlerCount |-> Len(node.handlers),
   handlers |-> afterHandlers.hrecs,
   elseLo |-> Len(afterHandlers.value) + 1,
   elseFirst |-> (IF node.orelse = <<>> THEN "" ELSE node.orelse[1].type),
   elseExit |-> afterElse.head,
   finalLo |-> Len(afterElse.value) + 1,
   finalFirst |-> (IF node.finalbody = <<>> THEN "" ELSE node.finalbody[1].type),
   finalHi |-> Len(afterFinal.value),
   lo |-> start, hi |-> Len(afterFinal.value)]

\* a visit_Try that visits the else clause from the exits of the handlers
\* together with the exits of the body
visit_Try_joined(B, node) ==
  LET B1 == visit_statements(B, node.body)
      body == B1.head
      B2 == visit_handlers(B1, body, node.handlers, <<>>, <<>>)
      handlers == B2.head
      B3 == visit_statements([B2 EXCEPT !.head = handlers \o body], node.orelse)
      B5 == visit_statements(B3, node.finalbody)
  IN [B5 EXCEPT !.log = Append(@, TryRecord(NewNode(B), body, handlers, B2, B3, B5, node))]

\* CFG.visit_Try
visit_Try(B, node) ==
  LET B1 == visit_statements(B, node.body)
      body == B1.head
      \* B2.head holds the list handlers
      B2 == visit_handlers(B1, body, node.handlers, <<>>, <<>>)
      handlers == B2.head
      B3 == visit_statements([B2 EXCEPT !.head = body], node.orelse)
      B4 == [B3 EXCEPT !.head = handlers \o B3.head]
      B5 == visit_statements(B4, node.finalbody)
  IN [B5 EXCEPT !.log = Append(@, TryRecord(NewNode(B), body, handlers, B2, B3, B5, node))]

\* CFG.generic_visit
generic_visit(B, node) == [B EXCEPT !.err = "ValueError"]

\* gast.NodeVisitor.visit: the method named after the statement's class
visit(B, node) ==
  CASE node.type = "If" -> visit_If(B, node)
    [] node.type = "While" -> visit_While(B, node)
    [] node.type = "For" -> visit_For(B, node)
    [] node.type = "Break" -> visit_Break(B, node)
    [] node.type = "Continue" -> visit_Continue(B, node)
    [] node.type = "Try" -> visit_Try(B, node)
    [] OTHER -> generic_visit(B, node)

\* the history record of the statement that follows a conditional or a loop
\* in its block, when that statement begins with a node of its own
Follow(B, nodes) ==
  IF /\ Head(nodes).type \in {"If", "While", "For"}
     /\ Len(nodes) > 1
     /\ nodes[2].type \notin {"Break", "Continue", "Try"}
     /\ B.err = ""
  THEN [B EXCEPT !.log = Append(@, [type |-> "follow", of |-> Len(B.log),
                                    node |-> NewNode(B),
                                    loop |-> nodes[2].type \in {"While", "For"}])]
  ELSE B

\* CFG.visit_statements
visit_statements(B, nodes) ==
  IF nodes = <<>> \/ B.err # "" THEN B
  ELSE LET node == Head(nodes)
           B1 == IF node.type \in CONTROL_FLOW
                 THEN visit(B, node)
                 ELSE set_head(Node(B, node), NewNode(B))
       IN visit_statements(Follow(B1, nodes), Tail(nodes))

RECURSIVE SetToSeq(_)
\* the members of a set in the order an iteration over it yields them
SetToSeq(S) ==
  IF S = {} THEN <<>>
  ELSE LET x == CHOOSE y \in S : TRUE IN <<x>> \o SetToSeq(S \ {x})

RECURSIVE backlink_loop(_, _, _, _)
\* the while loop of CFG.backlink
backlink_loop(next, prev, seen, to_see) ==
  IF to_see = <<>> THEN prev
  ELSE LET node == to_see[Len(to_see)]
           seen1 == seen \cup {node}
           prev1 == [s \in DOMAIN prev |->
                       IF s \in next[node] THEN prev[s] \cup {node} ELSE prev[s]]
       IN backlink_loop(next, prev1, seen1,
                        SubSeq(to_see, 1, Len(to_see) - 1)
                          \o SetToSeq(next[node] \ seen1))

\* CFG.backlink: the prev sets of the nodes, given the next sets
backlink(next, node) ==
  backlink_loop(next, [n \in DOMAIN next |-> {}], {}, <<node>>)

\* the builder before construction, and the value of cfg before build_cfg ran
NoCfg ==
  [value |-> <<>>, next |-> <<>>, prev |-> <<>>, head |-> <<>>, break_ |-> <<>>,
   continue_ |-> <<>>, log |-> <<>>, hrecs |-> <<>>, err |-> "", entry |-> 0, exit |-> 0]

\* CFG.build_cfg
build_cfg(node) ==
  IF node.type # "FunctionDef" THEN [NoCfg EXCEPT !.err = "TypeError"]
  ELSE
    LET B0 == [NoCfg EXCEPT !.value = <<node.args>>, !.next = <<{}>>,
                            !.head = <<1>>, !.entry = 1]
        B1 == visit_statements(B0, node.body)
        exit == NewNode(B1)
        B2 == set_head(Node(B1, None), exit)
    IN IF B1.err # "" THEN [NoCfg EXCEPT !.err = B1.err]
       ELSE [B2 EXCEPT !.exit = exit, !.prev = backlink(B2.next, B2.entry)]

\* the nodes of the graph
Nodes == DOMAIN cfg.value

RECURSIVE ReachLoop(_, _, _)
ReachLoop(next, seen, frontier) ==
  IF frontier = {} THEN seen
  ELSE LET new == UNION { next[n] : n \in frontier } \ seen
       IN ReachLoop(next, seen \cup new, new)

\* the nodes some path of one edge or more leads to from node n
ReachPlus(next, n) == ReachLoop(next, next[n], next[n])

\* the nodes reachable from node n, n included
Reach(next, n) == {n} \cup ReachPlus(next, n)

(***************************************************************************)
(* The construction specifications: build_cfg applied to every function of *)
(* at most MaxStmts statements (SpecCfg), and of one statement more        *)
(* (SpecDeep).                                                             *)
(***************************************************************************)
NoAnalysis == [label |-> "", op |-> "", wrt |-> {}, exit |-> <<>>]

\* no function has been handed over yet
NoFunction == [type |-> "NoneType"]

\* forward has not been given a tree of several functions
NoBatch == [tree |-> <<>>, at |-> 0, stores |-> <<>>]

\* no function of create.py has been called
NoFactory == [call |-> "", node |-> 0, tangent |-> FALSE, heap |-> <<>>, annos |-> <<>>, issued |-> <<>>,
              result |-> 0, raised |-> "", heap0 |-> <<>>, annos0 |-> <<>>]

\* before the call: no function, no graph, no annotation
Init ==
  /\ fn = NoFunction
  /\ analysis = NoAnalysis
  /\ pc = "start"
  /\ cfg = NoCfg
  /\ anno = <<>>
  /\ stack = <<>>
  /\ raised = ""
  /\ visits = 0
  /\ batch = NoBatch
  /\ factory = NoFactory

\* cfg_obj = CFG.build_cfg(succ), for the function node and the analysis a
Build(node, a) ==
  /\ pc = "start"
  /\ fn' = node
  /\ analysis' = a
  /\ cfg' = build_cfg(node)
  /\ pc' = IF cfg'.err = "" THEN "built" ELSE "raised"
  /\ raised' = cfg'.err
  /\ UNCHANGED <<anno, stack, visits, batch, factory>>

\* CFG.build_cfg on a function of at most MaxStmts statements
BuildOnly ==
  /\ pc = "start"
  /\ \E node \in CfgFunctions(MaxStmts) : Build(node, NoAnalysis)

\* CFG.build_cfg on a function of at most MaxStmts + 1 statements
BuildDeep ==
  /\ pc = "start"
  /\ \E node \in CfgFunctions(MaxStmts + 1) : Build(node, NoAnalysis)

SpecCfg == Init /\ [][BuildOnly]_vars

SpecDeep == Init /\ [][BuildDeep]_vars

\* the number of statements of a handler of the blocks of SpecHandlers
MaxHandlerStmts == 2

\* the exception-handling blocks with one statement in the body and two
\* handlers of at most n statements each
TwoHandlers(n, inLoop) ==
  LET hs == UNION { BlocksOf(k, inLoop, {AssignYX}) : k \in 1..n }
  IN { Try(b, <<h1, h2>>, <<>>, <<>>) : b \in BlocksOf(1, inLoop, {AssignYX}),
                                        h1 \in hs, h2 \in hs }

\* the functions whose body is such a block, alone, as the body of a loop, or
\* after a break in the body of a loop
HandlerFunctions(n) ==
  { FunctionDef(Params, <<t>>) : t \in TwoHandlers(n, FALSE) }
    \cup { FunctionDef(Params, <<While(Name("c"), <<t>>, <<>>)>>) : t \in TwoHandlers(n, TRUE) }
    \cup { FunctionDef(Params, <<While(Name("c"), <<Break, t>>, <<>>)>>) :
              t \in TwoHandlers(n, TRUE) }

\* CFG.build_cfg on a function whose body is a block with two handlers
BuildHandlers ==
  /\ pc = "start"
  /\ \E node \in HandlerFunctions(MaxHandlerStmts) : Build(node, NoAnalysis)

SpecHandlers == Init /\ [][BuildHandlers]_vars

(***************************************************************************)
(* The helpers of tangent/ast.py and the annotation store of               *)
(* tangent/annotations.py.  A variable name is the sequence of its         *)
(* dot-separated segments: x is <<"x">>, y.a is <<"y", "a">>.              *)
(***************************************************************************)
RECURSIVE get_name(_)
\* ast_.get_name: the name of a bare name or of a dotted chain of bare names;
\* <<>> stands for the TypeError it raises on anything else
get_name(node) ==
  CASE node.type = "Name" -> <<node.id>>
    [] node.type = "Attribute" ->
         LET base == get_name(node.value)
         IN IF base = <<>> THEN <<>> ELSE Append(base, node.attr)
    [] OTHER -> <<>>

\* ast_.get_updated: the names a statement or a parameter list creates or changes
get_updated(node) ==
  CASE node.type = "Assign" -> { get_name(t) : t \in Range(node.targets) }
    [] node.type = "For" -> {get_name(node.target)}
    [] node.type = "arguments" -> { <<a.id>> : a \in Range(node.args) }
    [] OTHER -> {}

\* anno.hasanno
hasanno(store, node, key) == <<node, key>> \in DOMAIN store

\* anno.getanno of an annotation that is there
getanno(store, node, key) == store[<<node, key>>]

\* anno.setanno with safe=False
setanno(store, node, key, value) ==
  [k \in DOMAIN store \cup {<<node, key>>} |->
     IF k = <<node, key>> THEN value ELSE store[k]]

(***************************************************************************)
(* class VarVisitor and get_variables.                                     *)
(***************************************************************************)
RECURSIVE VarVisitor_visit(_)

\* VarVisitor.visit_Name
visit_Name(node) == {<<node.id>>}

\* VarVisitor.visit_Attribute: the chain's name, nothing when get_name raises,
\* and in neither case a visit of the node's children
visit_Attribute(node) ==
  IF get_name(node) = <<>> THEN {} ELSE {get_name(node)}

\* gast.NodeVisitor.visit on a VarVisitor: visit_Name, visit_Attribute, and
\* generic_visit (every child) for the other classes
VarVisitor_visit(node) ==
  CASE node.type = "Name" -> visit_Name(node)
    [] node.type = "Attribute" -> visit_Attribute(node)
    [] node.type = "BinOp" -> VarVisitor_visit(node.left) \cup VarVisitor_visit(node.right)
    [] node.type = "Call" ->
         VarVisitor_visit(node.func)
           \cup UNION { VarVisitor_visit(a) : a \in Range(node.args) }
    [] OTHER -> {}

\* get_variables
get_variables(node) == VarVisitor_visit(node)

(***************************************************************************)
(* class Forward and the three analyses.  An analysis object is a record:  *)
(* label and op are the constructor's arguments, wrt is Active's argument, *)
(* exit is the attribute Forward.visit sets at the exit node (<<>> while   *)
(* it is not set, <<s>> when it holds s).                                  *)
(***************************************************************************)
out_label(a) == <<a.label, "_out">>
in_label(a) == <<a.label, "_in">>
gen_label(a) == <<a.label, "_gen">>
kill_label(a) == <<a.label, "_kill">>

\* ReachingDefinitions.__init__: definition(node, incoming)
definition(node, value, incoming) ==
  LET definitions == get_updated(value)
  IN [gen |-> { <<id_, node>> : id_ \in definitions },
      kill |-> { def_ \in incoming : def_[1] \in definitions }]

\* Defined.__init__: defined(node, incoming)
defined(node, value, incoming) ==
  [gen |-> get_updated(value), kill |-> {}]

\* Active.__init__: active(node, incoming)
active(wrt, node, value, incoming) ==
  LET gen0 == IF value.type = "arguments"
              THEN { <<value.args[i + 1].id>> : i \in wrt } ELSE {}
  IN IF value.type = "Assign"
     THEN IF value.value.type = "Call" /\ value.value.resolved = "pop"
          THEN [gen |-> gen0 \cup get_updated(value), kill |-> {}]
          ELSE IF get_variables(value.value) \cap incoming # {}
               THEN [gen |-> gen0 \cup get_updated(value), kill |-> {}]
               ELSE [gen |-> gen0, kill |-> get_updated(value)]
     ELSE [gen |-> gen0, kill |-> {}]

\* self.gen(node, incoming) of the analysis a
gen_kill(a, node, value, incoming) ==
  CASE a.label = "definitions" -> definition(node, value, incoming)
    [] a.label = "defined" -> defined(node, value, incoming)
    [] a.label = "active" -> active(a.wrt, node, value, incoming)

\* an op that is the union for every analysis
op_union(a, left, right) == left \cup right

\* self.op: operator.or_ or operator.and_ on two sets
op(a, left, right) ==
  IF a.op = "or" THEN left \cup right ELSE left \cap right

\* a reduce that returns preds[0] and leaves out the other predecessors
reduce_first(a, rest, acc) == acc

RECURSIVE reduce(_, _, _)
\* functools.reduce(self.op, preds[1:], preds[0]), given preds[1:] and preds[0]
reduce(a, rest, acc) ==
  IF rest = <<>> THEN acc ELSE reduce(a, Tail(rest), op(a, acc, Head(rest)))

\* a visit that propagates only when the node had no outgoing set before
changed_first(before, out) == before = <<>>

\* a visit that always propagates
changed_always(before, out) == TRUE

\* whether the outgoing set differs from what was stored before the visit:
\* hash(out) != before, where before is <<>> for None
changed(before, out) == before # <<out>>

\* the frame of a call of Forward.visit that has not run yet
Call_visit(node) == [node |-> node, at |-> "call", todo |-> {}]

\* what the annotation store holds after lines 209-225 of Forward.visit
visit_store(a, store, g, node) ==
  LET preds == [i \in 1..Len(SetToSeq({ p \in g.prev[node] : hasanno(store, p, out_label(a)) }))
                  |-> getanno(store,
                              SetToSeq({ p \in g.prev[node] : hasanno(store, p, out_label(a)) })[i],
                              out_label(a))]
      incoming == IF preds # <<>> THEN reduce(a, Tail(preds), Head(preds)) ELSE {}
      gk == gen_kill(a, node, g.value[node], incoming)
      s1 == setanno(store, node, in_label(a), incoming)
      s2 == setanno(s1, node, gen_label(a), gk.gen)
      s3 == setanno(s2, node, kill_label(a), gk.kill)
  IN setanno(s3, node, out_label(a), (incoming \ gk.kill) \cup gk.gen)

\* the frames left when the call on top of the stack returns
Pop(s) == SubSeq(s, 1, Len(s) - 1)

Top == stack[Len(stack)]

\* the three analyses; Active with no active parameter and with the first
ReachingDefinitions == [label |-> "definitions", op |-> "or", wrt |-> {}, exit |-> <<>>]
\* Defined with the meet of Reaching Definitions
Defined_or == [label |-> "defined", op |-> "or", wrt |-> {}, exit |-> <<>>]
Defined == [label |-> "defined", op |-> "and", wrt |-> {}, exit |-> <<>>]
Active(wrt) == [label |-> "active", op |-> "or", wrt |-> wrt, exit |-> <<>>]
Analyses == {ReachingDefinitions, Defined} \cup { Active(w) : w \in SUBSET {0} }

\* z = 2
AssignZ2 == Assign(<<Name("z")>>, Num)
\* z = tangent.pop(_stack)
AssignZPop == Assign(<<Name("z")>>, Call(Name("pop"), <<Name("_stack")>>, "pop"))
\* z = f(y).a
AssignZAttr == Assign(<<Name("z")>>, Attribute(Call(Name("f"), <<Name("y")>>, ""), "a"))

\* x = 1
AssignX1 == Assign(<<Name("x")>>, Num)
\* y = x
AssignYfromX == Assign(<<Name("y")>>, Name("x"))

\* the bodies of the documented examples: `x = 1; x = 2; y = x`, and
\* `if c: y = x + 1 else: y = x + 1` followed by `z = 2`
DocumentedBodies ==
  { <<AssignX1, AssignX1, AssignYfromX>>,
    <<If(Name("c"), <<AssignYX>>, <<AssignYX>>), AssignZ2>> }

\* a conditional whose branches define different variables, followed by a
\* statement: `if c: y = x + 1 else: z = 2` followed by `z = 2`
JoinBodies ==
  { <<If(Name("c"), <<AssignYX>>, <<AssignZ2>>), AssignZ2>> }

\* the plain statements of the functions an analysis is run on: the ones its
\* gen/kill function tells apart
FlowPlain(a) ==
  IF a.label = "active" THEN {AssignYX, AssignZ2, AssignZPop, AssignZAttr}
  ELSE {AssignYX, AssignZ2}

(***************************************************************************)
(* The dataflow specification: forward(node, analysis) on a tree that      *)
(* holds one function.                                                     *)
(***************************************************************************)
\* forward(node, analysis) up to the call of analysis.visit: the CFG of the
\* function is built
BuildCfg ==
  /\ pc = "start"
  /\ \E a \in Analyses :
       \E body \in Bodies(MaxFlowStmts, FlowPlain(a)) \cup DocumentedBodies \cup JoinBodies :
         Build(FunctionDef(Params, body), a)

\* analysis.visit(cfg_obj.entry)
Start ==
  /\ pc = "built"
  /\ analysis.label # ""
  /\ pc' = "run"
  /\ stack' = <<Call_visit(cfg.entry)>>
  /\ visits' = 1
  /\ UNCHANGED <<fn, analysis, cfg, anno, raised, batch, factory>>

\* the call on top of the stack is at `if node.value:` with a node that has one
AtNode == pc = "run" /\ stack # <<>> /\ Top.at = "call" /\ cfg.value[Top.node] # None

\* the call on top of the stack is at `if node.value:` with the exit node
AtExit == pc = "run" /\ stack # <<>> /\ Top.at = "call" /\ cfg.value[Top.node] = None

\* the call on top of the stack is in its loop, with a successor left to visit
\* and room for the call
AtSucc == pc = "run" /\ stack # <<>> /\ Top.at = "loop" /\ Top.todo # {}
            /\ Len(stack) < MaxStack

\* the call on top of the stack is at the end of its loop
AtReturn == pc = "run" /\ stack # <<>> /\ Top.at = "loop" /\ Top.todo = {}

\* Forward.visit on a node that has a value, up to the loop over node.next
VisitNode ==
  /\ AtNode
  /\ LET node == Top.node
         before == IF hasanno(anno, node, out_label(analysis))
                   THEN <<getanno(anno, node, out_label(analysis))>> ELSE <<>>
         store == visit_store(analysis, anno, cfg, node)
     IN /\ anno' = store
        /\ IF changed(before, getanno(store, node, out_label(analysis)))
           THEN /\ stack' = [stack EXCEPT ![Len(stack)] =
                               [node |-> node, at |-> "loop", todo |-> cfg.next[node]]]
                /\ pc' = pc
           ELSE /\ stack' = Pop(stack)
                /\ pc' = IF Len(stack) = 1 THEN "done" ELSE pc
  /\ UNCHANGED <<fn, analysis, cfg, raised, visits, batch, factory>>

\* for succ in node.next: self.visit(succ), one iteration; a set is iterated
\* in an order the code does not choose
VisitSucc ==
  /\ AtSucc
  /\ \E succ \in Top.todo :
       stack' = Append([stack EXCEPT ![Len(stack)].todo = @ \ {succ}], Call_visit(succ))
  /\ visits' = visits + 1
  /\ UNCHANGED <<fn, analysis, pc, cfg, anno, raised, batch, factory>>

\* the loop over node.next is over: the call returns
Return ==
  /\ AtReturn
  /\ stack' = Pop(stack)
  /\ pc' = IF Len(stack) = 1 THEN "done" ELSE pc
  /\ UNCHANGED <<fn, analysis, cfg, anno, raised, visits, batch, factory>>

\* Forward.visit on the exit node: getanno raises KeyError on a predecessor
\* without the annotation, preds[0] raises IndexError on an empty list
VisitExit ==
  /\ AtExit
  /\ LET node == Top.node
         order == SetToSeq(cfg.prev[node])
     IN IF \E p \in cfg.prev[node] : ~hasanno(anno, p, out_label(analysis))
        THEN /\ raised' = "KeyError"
             /\ pc' = "raised"
             /\ stack' = <<>>
             /\ analysis' = analysis
        ELSE IF cfg.prev[node] = {}
        THEN /\ raised' = "IndexError"
             /\ pc' = "raised"
             /\ stack' = <<>>
             /\ analysis' = analysis
        ELSE LET preds == [i \in 1..Len(order) |-> getanno(anno, order[i], out_label(analysis))]
             IN /\ analysis' = [analysis EXCEPT
                                  !.exit = <<reduce(analysis, Tail(preds), Head(preds))>>]
                /\ stack' = Pop(stack)
                /\ pc' = IF Len(stack) = 1 THEN "done" ELSE pc
                /\ raised' = raised
  /\ UNCHANGED <<fn, cfg, anno, visits, batch, factory>>

\* a step of the propagation
Step == Start \/ VisitNode \/ VisitSucc \/ Return \/ VisitExit

Next == BuildCfg \/ Step

Spec == Init /\ [][Next]_vars

(***************************************************************************)
(* forward(node, analysis) on a tree that holds several functions: the     *)
(* loop over gast.walk(node).                                              *)
(***************************************************************************)
\* the functions of the trees: a plain one, one with a loop, and one whose
\* body holds a statement no method of CFG visits, after a plain statement
BatchFunctions ==
  { FunctionDef(Params, <<AssignYX>>),
    FunctionDef(Params, <<While(Name("c"), <<AssignZ2>>, <<>>), AssignYX>>),
    FunctionDef(Params, <<AssignYX, AsyncFor(Name("i"), <<AssignZ2>>, <<>>)>>) }

\* the trees of n functions at most, two at least
Trees(n) == UNION { [1..k -> BatchFunctions] : k \in 2..n }

\* the iteration of the loop of forward on the i-th function of the tree
Walk(tree, i) ==
  /\ fn' = tree[i]
  /\ cfg' = build_cfg(tree[i])
  /\ pc' = IF cfg'.err = "" THEN "built" ELSE "raised"
  /\ raised' = cfg'.err
  /\ anno' = <<>>
  /\ stack' = <<>>
  /\ visits' = 0

\* forward(node, analysis) up to the first call of analysis.visit
BatchBegin ==
  /\ pc = "start"
  /\ \E a \in Analyses : \E tree \in Trees(MaxBatch) :
       /\ analysis' = a
       /\ batch' = [tree |-> tree, at |-> 1, stores |-> <<>>]
       /\ Walk(tree, 1)
  /\ UNCHANGED factory

\* analysis.visit has returned and the walk has a function left: the next
\* iteration of the loop, up to its call of analysis.visit
BatchNext ==
  /\ pc = "done"
  /\ batch.at < Len(batch.tree)
  /\ batch' = [batch EXCEPT !.at = @ + 1, !.stores = Append(@, anno)]
  /\ Walk(batch.tree, batch.at + 1)
  /\ UNCHANGED <<analysis, factory>>

NextBatch == BatchBegin \/ Step \/ BatchNext

SpecBatch == Init /\ [][NextBatch]_vars

(***************************************************************************)
(* tangent/create.py: create_grad, create_temp_grad and create_temp.       *)
(*                                                                         *)
(* The nodes the functions are given and the nodes they make are objects   *)
(* with an identity: object k is heap[k], a record of the object's class   *)
(* and fields, in which a field that holds a node holds the node's number. *)
(* An identifier is a sequence of strings, x is <<"x">>.  The state of a   *)
(* call is a record F: heap, annos (the annotation store, keyed by object  *)
(* and key), issued (the names the namer has given out), result (the node  *)
(* returned, 0 when none) and raised (the exception, "" when none).        *)
(***************************************************************************)
\* the terms the references are made from: a name (temp is <<t>> when the
\* name is a temporary made by create_temp for the reference t), ...
RName(id, temp) == [type |-> "Name", id |-> id, temp |-> temp]
\* ... a subscript v[i], an attribute v.a, a string, a number, a call v(),
RSubscript(v) == [type |-> "Subscript", value |-> v]
RAttribute(v) == [type |-> "Attribute", value |-> v]
RStr == [type |-> "Str"]
RNum == [type |-> "Num"]
RCall(v) == [type |-> "Call", value |-> v]
\* ... and a tuple
RTuple(elts) == [type |-> "Tuple", elts |-> elts]

\* a new object
New(F, object) == [F EXCEPT !.heap = Append(@, object), !.result = Len(F.heap) + 1]

RECURSIVE Alloc(_, _), AllocAll(_, _, _)
\* the objects of the term t, made in F; result is the object of t itself
Alloc(F, t) ==
  CASE t.type = "Name" ->
         IF t.temp = <<>> THEN New(F, [type |-> "Name", id |-> t.id, ctx |-> "Load"])
         ELSE LET T == Alloc(F, t.temp[1])
                  N == New(T, [type |-> "Name", id |-> t.id, ctx |-> "Load"])
              IN [N EXCEPT !.annos = setanno(@, N.result, "temp_var", T.result)]
    [] t.type = "Subscript" ->
         LET V == Alloc(F, t.value)
             I == New(V, [type |-> "Index"])
         IN New(I, [type |-> "Subscript", value |-> V.result, slice |-> I.result,
                    ctx |-> "Load"])
    [] t.type = "Attribute" ->
         LET V == Alloc(F, t.value)
         IN New(V, [type |-> "Attribute", value |-> V.result, attr |-> "a", ctx |-> "Load"])
    [] t.type = "Call" ->
         LET V == Alloc(F, t.value)
         IN New(V, [type |-> "Call", func |-> V.result])
    [] t.type = "Str" -> New(F, [type |-> "Str", s |-> <<"s">>])
    [] t.type = "Tuple" -> AllocAll(F, t.elts, <<>>)
    [] OTHER -> New(F, [type |-> "Num"])

\* the objects of the members of a tuple, then the tuple
AllocAll(F, elts, made) ==
  IF elts = <<>> THEN New(F, [type |-> "Tuple", elts |-> made, ctx |-> "Load"])
  ELSE LET E == Alloc(F, Head(elts)) IN AllocAll(E, Tail(elts), Append(made, E.result))

\* nesting depth of the references
MaxDepth == 2
\* members of a tuple
MaxElts == 2

\* the references that are no tuple and no temporary, of nesting depth d at most
RECURSIVE Chains(_)
Chains(d) ==
  IF d = 0 THEN { RName(<<"x">>, <<>>), RStr, RNum, RCall(RName(<<"f">>, <<>>)) }
  ELSE Chains(d - 1) \cup { RSubscript(v) : v \in Chains(d - 1) }
                     \cup { RAttribute(v) : v \in Chains(d - 1) }

\* the tuples of n members at most, one at least, each of depth d at most
Tuples(d, n) == { RTuple(e) : e \in UNION { [1..k -> Chains(d)] : k \in 1..n } }

\* the temporaries create_temp makes: names annotated temp_var
Temporaries ==
  { RName(<<"_t", "y">>, <<t>>) :
      t \in { RName(<<"y">>, <<>>), RSubscript(RName(<<"y">>, <<>>)),
              RAttribute(RName(<<"y">>, <<>>)),
              RTuple(<<RName(<<"y">>, <<>>), RName(<<"z">>, <<>>)>>) } }

\* subscript chains of depth d at most over the members of base
RECURSIVE Subscripted(_, _)
Subscripted(base, d) ==
  IF d = 0 THEN base
  ELSE Subscripted(base, d - 1) \cup { RSubscript(v) : v \in Subscripted(base, d - 1) }

\* the references the functions are called with
Inputs ==
  Chains(MaxDepth) \cup Tuples(MaxDepth - 1, MaxElts) \cup Subscripted(Temporaries, MaxDepth)

\* raise e: the call returns no node
Raise(F, e) == [F EXCEPT !.raised = e, !.result = 0]

\* object.field = v
setattr(object, field, v) ==
  [f \in DOMAIN object \cup {field} |-> IF f = field THEN v ELSE object[f]]

\* the namer gives out a name made of a prefix and the name it is given, and
\* never one it has given out before
Unique(F, prefix, name) == <<prefix>> \o name \o <<ToString(Len(F.issued))>>

\* namer.grad(name, tangent)
namer_grad(F, name, tangent) == Unique(F, IF tangent THEN "d" ELSE "b", name)

\* namer.temp_grad(name, tangent)
namer_temp_grad(F, name, tangent) == Unique(F, IF tangent THEN "_d" ELSE "_b", name)

\* namer.temp(name)
namer_temp(F, name) == Unique(F, "_t", name)

RECURSIVE name_Attribute(_, _)
\* namer.name_Attribute(node): the names along the attribute's base and the
\* attribute
name_Attribute(F, node) ==
  LET n == F.heap[node]
  IN CASE n.type = "Name" -> n.id
       [] n.type = "Attribute" -> Append(name_Attribute(F, n.value), n.attr)
       [] n.type = "Subscript" -> name_Attribute(F, n.value)
       [] OTHER -> <<"_">>

\* gast.Name(id=name, ctx=None, annotation=None) annotated key -> node, the
\* name taken from the namer
NewName(F, name, key, node) ==
  LET N == New([F EXCEPT !.issued = Append(@, name)],
               [type |-> "Name", id |-> name, ctx |-> "None"])
  IN [N EXCEPT !.annos = setanno(@, N.result, key, node)]

RECURSIVE create_grad(_, _, _)

\* a create_grad that does not look for the temp_var annotation
create_grad_direct(F, node, tangent) ==
  LET n == F.heap[node]
  IN IF n.type \notin {"Subscript", "Name", "Attribute", "Str"} THEN Raise(F, "TypeError")
     ELSE CASE n.type = "Name" ->
                 NewName(F, namer_grad(F, n.id, tangent), "adjoint_var", node)
            [] n.type = "Subscript" ->
                 LET G == create_grad(F, n.value, tangent)
                 IN IF G.raised # "" THEN G
                    ELSE New([G EXCEPT !.heap[G.result] = setattr(@, "ctx", "Load")],
                             [type |-> "Subscript", value |-> G.result,
                              slice |-> n.slice, ctx |-> "None"])
            [] n.type = "Attribute" ->
                 NewName(F, namer_grad(F, name_Attribute(F, node), tangent),
                         "adjoint_var", node)
            [] n.type = "Str" ->
                 LET T == New(F, [type |-> "Name", id |-> n.s, ctx |-> "None"])
                     G == create_grad(T, T.result, tangent)
                 IN New(G, [type |-> "Str", s |-> G.heap[G.result].id])

\* create_grad(node, namer, tangent)
create_grad(F, node, tangent) ==
  LET n == F.heap[node]
  IN IF n.type \notin {"Subscript", "Name", "Attribute", "Str"} THEN Raise(F, "TypeError")
     ELSE IF hasanno(F.annos, node, "temp_var")
     THEN create_grad(F, getanno(F.annos, node, "temp_var"), tangent)
     ELSE CASE n.type = "Name" ->
                 NewName(F, namer_grad(F, n.id, tangent), "adjoint_var", node)
            [] n.type = "Subscript" ->
                 LET G == create_grad(F, n.value, tangent)
                 IN IF G.raised # "" THEN G
                    ELSE New([G EXCEPT !.heap[G.result] = setattr(@, "ctx", "Load")],
                             [type |-> "Subscript", value |-> G.result,
                              slice |-> n.slice, ctx |-> "None"])
            [] n.type = "Attribute" ->
                 NewName(F, namer_grad(F, name_Attribute(F, node), tangent),
                         "adjoint_var", node)
            [] n.type = "Str" ->
                 LET T == New(F, [type |-> "Name", id |-> n.s, ctx |-> "None"])
                     G == create_grad(T, T.result, tangent)
                 IN New(G, [type |-> "Str", s |-> G.heap[G.result].id])

RECURSIVE get_full_name(_, _)
\* _get_full_name(node): the dotted name of a name or of an attribute chain
\* over a name, <<>> for None
get_full_name(F, node) ==
  LET n == F.heap[node]
  IN CASE n.type = "Name" -> n.id
       [] n.type = "Attribute" ->
            LET base == F.heap[n.value]
            IN IF base.type \in {"Attribute", "Name"} /\ get_full_name(F, n.value) # <<>>
               THEN Append(get_full_name(F, n.value), n.attr)
               ELSE <<>>
       [] OTHER -> <<>>

\* create_temp_grad(node, namer, tangent); node.value.id and node.s raise
\* AttributeError on an object without the field
create_temp_grad(F, node, tangent) ==
  LET n == F.heap[node]
      made(name) == NewName(F, namer_temp_grad(F, name, tangent), "temp_adjoint_var", node)
  IN CASE n.type = "Name" -> made(n.id)
       [] n.type = "Subscript" ->
            IF "id" \in DOMAIN F.heap[n.value] THEN made(F.heap[n.value].id)
            ELSE Raise(F, "AttributeError")
       [] n.type = "Str" -> made(n.s)
       [] n.type = "Attribute" ->
            IF get_full_name(F, node) # <<>> THEN made(get_full_name(F, node))
            ELSE Raise(F, "TypeError")
       [] OTHER -> IF "s" \in DOMAIN n THEN Raise(F, "TypeError")
                   ELSE Raise(F, "AttributeError")

RECURSIVE tuple_names(_, _, _, _)
\* the loop over node.elts of create_temp: <<names>>, or <<>> when it raises
\* TypeError, or <<names, e>> when n.value.id raises e
tuple_names(F, node, elts, names) ==
  IF elts = <<>> THEN <<names>>
  ELSE LET n == F.heap[Head(elts)]
       IN IF n.type = "Name"
          THEN tuple_names(F, node, Tail(elts), names \o n.id)
          ELSE IF F.heap[node].type \in {"Attribute", "Subscript"}
          THEN IF "id" \in DOMAIN F.heap[n.value]
               THEN tuple_names(F, node, Tail(elts), names \o F.heap[n.value].id)
               ELSE <<names, "AttributeError">>
          ELSE <<>>

\* create_temp(node, namer)
create_temp(F, node) ==
  LET n == F.heap[node]
      made(name) == NewName(F, namer_temp(F, name), "temp_var", node)
  IN CASE n.type = "Name" -> made(n.id)
       [] n.type \in {"Attribute", "Subscript"} ->
            IF "id" \in DOMAIN F.heap[n.value] THEN made(F.heap[n.value].id)
            ELSE Raise(F, "AttributeError")
       [] n.type = "Tuple" ->
            LET names == tuple_names(F, node, n.elts, <<>>)
            IN IF names = <<>> THEN Raise(F, "TypeError")
               ELSE IF Len(names) = 2 THEN Raise(F, names[2])
               ELSE made(names[1])
       [] OTHER -> Raise(F, "TypeError")

(***************************************************************************)
(* The factory specification: one call of one of the three functions on    *)
(* one reference.                                                          *)
(***************************************************************************)
\* the objects of a reference, before the call
MakeInput ==
  /\ pc = "start"
  /\ \E t \in Inputs :
       LET A == Alloc(NoFactory, t)
       IN factory' = [A EXCEPT !.node = A.result, !.result = 0,
                               !.heap0 = A.heap, !.annos0 = A.annos]
  /\ pc' = "input"
  /\ UNCHANGED <<fn, analysis, cfg, anno, stack, raised, visits, batch>>

\* create_grad(node, namer, tangent)
CreateGrad ==
  /\ pc = "input"
  /\ \E tangent \in BOOLEAN :
       factory' = [create_grad(factory, factory.node, tangent)
                     EXCEPT !.call = "create_grad", !.tangent = tangent]
  /\ pc' = "called"
  /\ UNCHANGED <<fn, analysis, cfg, anno, stack, raised, visits, batch>>

\* create_temp_grad(node, namer, tangent)
CreateTempGrad ==
  /\ pc = "input"
  /\ \E tangent \in BOOLEAN :
       factory' = [create_temp_grad(factory, factory.node, tangent)
                     EXCEPT !.call = "create_temp_grad", !.tangent = tangent]
  /\ pc' = "called"
  /\ UNCHANGED <<fn, analysis, cfg, anno, stack, raised, visits, batch>>

\* create_temp(node, namer)
CreateTemp ==
  /\ pc = "input"
  /\ factory' = [create_temp(factory, factory.node) EXCEPT !.call = "create_temp"]
  /\ pc' = "called"
  /\ UNCHANGED <<fn, analysis, cfg, anno, stack, raised, visits, batch>>

NextCreate == MakeInput \/ CreateGrad \/ CreateTempGrad \/ CreateTemp

SpecCreate == Init /\ [][NextCreate]_vars

(***************************************************************************)
(* The history of the construction, read back.                             *)
(***************************************************************************)
Records(type) == { i \in DOMAIN cfg.log : cfg.log[i].type = type }

\* the nodes of the body of the loop of record r
BodyNodes(r) == (r.header + 1)..r.bodyHi

\* the nodes created after the loop of record r was completed
AfterLoop(r) == { n \in Nodes : n > r.elseHi }

\* the nodes that are the test of a conditional or the header of a loop
TestNodes ==
  { cfg.log[i].test : i \in Records("if") } \cup { cfg.log[i].header : i \in Records("loop") }

\* the exits of the bodies of the exception-handling blocks that have handlers
TryBodyExits ==
  UNION { Range(cfg.log[i].bodyExit) :
            i \in { j \in Records("try") : cfg.log[j].handlerExits # <<>>
                                             \/ cfg.log[j].bodyExit # <<>> } }

(***************************************************************************)
(* C4: after build_cfg every node created during construction is reachable *)
(* from entry along next edges, exactly one node, the exit, has no value,  *)
(* and the exit has no outgoing edge.                                      *)
(***************************************************************************)
C4_AllReachable ==
  pc = "built" =>
    /\ \A n \in Nodes : n \in Reach(cfg.next, cfg.entry)
    /\ { n \in Nodes : cfg.value[n] = None } = {cfg.exit}
    /\ cfg.next[cfg.exit] = {}

(***************************************************************************)
(* C5: after build_cfg prev is the exact transpose of next: for all nodes  *)
(* m and n created during construction, m is in n.prev if and only if n is *)
(* in m.next.                                                              *)
(***************************************************************************)
C5_PrevTransposesNext ==
  pc = "built" =>
    \A m \in Nodes : \A n \in Nodes : (m \in cfg.prev[n]) <=> (n \in cfg.next[m])

(***************************************************************************)
(* C9, as stated: for every loop, every node at the end of the loop body   *)
(* and every node collected by a continue in it has an edge to the loop's  *)
(* header, the header is reachable from itself, and a node collected by a  *)
(* continue has no edge to a node that follows the loop nor to the header  *)
(* of a loop whose body does not contain it.                               *)
(***************************************************************************)
C9_Original ==
  pc = "built" =>
    \A i \in Records("loop") :
      LET r == cfg.log[i] IN
      /\ \A c \in Range(r.bodyEnd) \cup Range(r.conts) : r.header \in cfg.next[c]
      /\ r.header \in ReachPlus(cfg.next, r.header)
      /\ \A c \in Range(r.conts) : \A t \in cfg.next[c] :
           /\ t \notin AfterLoop(r)
           /\ \A j \in Records("loop") :
                (t = cfg.log[j].header /\ j # i) => c \in BodyNodes(cfg.log[j])

(***************************************************************************)
(* C9, amended: for every loop, every node at the end of the loop body and *)
(* every node collected by a continue in it has an edge to the loop's      *)
(* header; the header is reachable from itself whenever one of these nodes *)
(* is reachable from the header; and a node collected by a continue that   *)
(* wraps a plain statement and is not the exit of the body of an           *)
(* exception-handling block has the header as its only successor.          *)
(***************************************************************************)
C9_BackEdges ==
  pc = "built" =>
    \A i \in Records("loop") :
      LET r == cfg.log[i]
          back == Range(r.bodyEnd) \cup Range(r.conts)
      IN
      /\ \A c \in back : r.header \in cfg.next[c]
      /\ (\E c \in back : c \in Reach(cfg.next, r.header))
           => r.header \in ReachPlus(cfg.next, r.header)
      /\ \A c \in Range(r.conts) :
           (c \notin TestNodes /\ c \notin TryBodyExits) => cfg.next[c] = {r.header}

\* a loop of one shape nested in the body of a loop of the other shape, whose
\* continue collected a plain statement
C9_Witness ==
  /\ pc = "built"
  /\ \E i \in Records("loop") : \E j \in Records("loop") :
       /\ cfg.log[j].header \in BodyNodes(cfg.log[i])
       /\ cfg.log[i].kind # cfg.log[j].kind
       /\ \E c \in Range(cfg.log[j].conts) : c \notin TestNodes /\ c \notin TryBodyExits

(***************************************************************************)
(* C10: for a conditional followed by a statement S (one that is not a     *)
(* loop, whose header the loop's own back edges enter too), the            *)
(* predecessors of S are exactly the exit nodes of the then-branch         *)
(* together with the exit nodes of the else-branch; the test node takes    *)
(* the place of an empty else-branch, and a branch that ends in break or   *)
(* continue contributes no predecessor.                                    *)
(***************************************************************************)
C10_PredsAfterIf ==
  pc = "built" =>
    \A i \in Records("follow") :
      LET f == cfg.log[i]
          r == cfg.log[f.of]
      IN (r.type = "if" /\ ~f.loop) =>
           /\ cfg.prev[f.node] = Range(r.bodyExit) \cup Range(r.elseExit)
           /\ r.elseEmpty => r.elseExit = <<r.test>>
           /\ r.bodyJump => r.bodyExit = <<>>
           /\ r.elseJump => r.elseExit = <<>>

(***************************************************************************)
(* The result of an analysis, read back.                                   *)
(***************************************************************************)
\* the nodes the propagation can get to
Live == Reach(cfg.next, cfg.entry)

\* the nodes that wrap a statement or the parameter list
Stmts == { n \in Nodes : cfg.value[n] # None }

HasIn(n) == hasanno(anno, n, in_label(analysis))
HasOut(n) == hasanno(anno, n, out_label(analysis))
In(n) == getanno(anno, n, in_label(analysis))
Out(n) == getanno(anno, n, out_label(analysis))

\* the meet of a set of sets of facts, nothing for no set
Meet(sets) ==
  IF sets = {} THEN {}
  ELSE IF analysis.op = "or" THEN UNION sets
  ELSE { x \in UNION sets : \A s \in sets : x \in s }

\* the names the function's statements and parameter list create or change
Names == UNION { get_updated(cfg.value[n]) : n \in Stmts }

\* the facts an analysis can put in a set
Universe ==
  IF analysis.label = "definitions"
  THEN UNION { { <<v, n>> : v \in get_updated(cfg.value[n]) } : n \in Stmts }
  ELSE Names

\* the number of next edges between nodes
Edges == Cardinality(UNION { { <<m, n>> : n \in cfg.next[m] } : m \in Nodes })

(***************************************************************************)
(* C1: when forward has returned, every node reachable from entry that is  *)
(* not the exit has a stored incoming, gen, kill and outgoing set; its     *)
(* incoming set is the meet of the stored outgoing sets of all of its      *)
(* predecessors (the empty set when it has none), its gen and kill sets    *)
(* are the ones its transfer function gives on that incoming set, and its  *)
(* outgoing set is the incoming set minus the kill set, plus the gen set.  *)
(***************************************************************************)
C1_FixedPoint ==
  pc = "done" =>
    \A n \in Live \cap Stmts :
      /\ HasIn(n) /\ HasOut(n)
      /\ hasanno(anno, n, gen_label(analysis)) /\ hasanno(anno, n, kill_label(analysis))
      /\ \A p \in cfg.prev[n] : HasOut(p)
      /\ In(n) = Meet({ Out(p) : p \in cfg.prev[n] })
      /\ getanno(anno, n, gen_label(analysis))
           = gen_kill(analysis, n, cfg.value[n], In(n)).gen
      /\ getanno(anno, n, kill_label(analysis))
           = gen_kill(analysis, n, cfg.value[n], In(n)).kill
      /\ Out(n) = (In(n) \ getanno(anno, n, kill_label(analysis)))
                    \cup getanno(anno, n, gen_label(analysis))

\* forward has returned on a graph with a cycle, after visiting some node again,
\* and a node of it has two predecessors whose outgoing sets differ
C1_Witness ==
  /\ pc = "done"
  /\ visits > Cardinality(Live)
  /\ \E n \in Live : n \in ReachPlus(cfg.next, n)
  /\ \E n \in Live \cap Stmts : \E p \in cfg.prev[n] : \E q \in cfg.prev[n] : Out(p) # Out(q)

(***************************************************************************)
(* C2: the propagation terminates.  Forward.visit is called at most        *)
(* 1 + E * (U + 1) times, E the number of next edges and U the number of   *)
(* facts the analysis can put in a set (each node's outgoing set changes   *)
(* at most U + 1 times, and each change visits the node's successors       *)
(* once), the recursion is never deeper than MaxStack - 1, and while the   *)
(* propagation runs the call on top of the stack can take its next step;   *)
(* so every run of forward takes finitely many steps and then has no       *)
(* pending revisit.                                                        *)
(***************************************************************************)
C2_Terminates ==
  /\ visits <= 1 + Edges * (Cardinality(Universe) + 1)
  /\ Len(stack) < MaxStack
  /\ pc = "run" => (AtNode \/ AtExit \/ AtSucc \/ AtReturn)

\* forward has returned on a loop nested in a loop, after visiting some node
\* three times or more
C2_Witness ==
  /\ pc = "done"
  /\ stack = <<>>
  /\ visits > 2 * Cardinality(Nodes)
  /\ \E i \in Records("loop") : \E j \in Records("loop") :
       cfg.log[j].header \in BodyNodes(cfg.log[i])

(***************************************************************************)
(* C3: the visit of the exit node never fails, and records on the analysis *)
(* object the meet of the outgoing sets of the exit's predecessors.        *)
(***************************************************************************)
C3_ExitMeet ==
  /\ raised = ""
  /\ (pc = "done" /\ cfg.exit \in Live) =>
       analysis.exit = << Meet({ Out(p) : p \in { q \in cfg.prev[cfg.exit] : HasOut(q) } }) >>

\* the propagation has failed at the exit node of a function whose last
\* statement is a conditional with two non-empty branches
C3_KeyError ==
  /\ pc = "raised" /\ raised = "KeyError"
  /\ \E i \in Records("if") :
       /\ ~cfg.log[i].elseEmpty
       /\ cfg.prev[cfg.exit] = Range(cfg.log[i].bodyExit) \cup Range(cfg.log[i].elseExit)

(***************************************************************************)
(* Paths of the graph.                                                     *)
(***************************************************************************)
\* whether the node n creates or changes the name v
Defines(n, v) == v \in get_updated(cfg.value[n])

RECURSIVE Along(_, _)
\* the nodes a path gets to from the nodes of seen, going on only from the
\* nodes of pass
Along(seen, pass) ==
  LET new == UNION { cfg.next[m] : m \in seen \cap pass } \ seen
  IN IF new = {} THEN seen ELSE Along(seen \cup new, pass)

\* the nodes n with a path from d to n, of one edge or more, on which no node
\* after d and before n defines v
DefReach(d, v) == Along(cfg.next[d], { m \in Nodes : ~Defines(m, v) })

RECURSIVE Avoiding(_, _)
\* the nodes a path gets to from the nodes of seen, through nodes of free only
Avoiding(seen, free) ==
  LET new == (UNION { cfg.next[m] : m \in seen } \cap free) \ seen
  IN IF new = {} THEN seen ELSE Avoiding(seen \cup new, free)

\* the nodes n with a path from entry to n, through n, no node of which defines v
AvoidReach(v) ==
  IF Defines(cfg.entry, v) THEN {}
  ELSE Avoiding({cfg.entry}, { m \in Nodes : ~Defines(m, v) })

(***************************************************************************)
(* C6: after Reaching Definitions has run, for every statement n the       *)
(* stored incoming set contains the pair (v, d) if and only if d defines v *)
(* and there is a path in the graph from d to n on which no statement      *)
(* after d redefines v.                                                    *)
(***************************************************************************)
C6_ReachingDefinitions ==
  (pc = "done" /\ analysis.label = "definitions") =>
    \A n \in Stmts : \A d \in Stmts : \A v \in Names :
      (HasIn(n) /\ <<v, d>> \in In(n)) <=> (Defines(d, v) /\ n \in DefReach(d, v))

(***************************************************************************)
(* C7: after Defined Variables has run, a variable is in the stored        *)
(* outgoing set of a statement n if and only if every path from entry to n *)
(* (through n) contains a statement that defines it, and in the stored     *)
(* incoming set of n if and only if every path from entry to a             *)
(* predecessor of n does.                                                  *)
(***************************************************************************)
C7_Defined ==
  (pc = "done" /\ analysis.label = "defined") =>
    \A n \in Live \cap Stmts : \A v \in Names :
      /\ v \in Out(n) <=> n \notin AvoidReach(v)
      /\ n # cfg.entry => (v \in In(n) <=> \A p \in cfg.prev[n] : p \notin AvoidReach(v))

\* Defined Variables has run and a statement has two predecessors, one with a
\* variable in its outgoing set and one without: the variable is not in the
\* statement's incoming set
C7_Witness ==
  /\ pc = "done" /\ analysis.label = "defined"
  /\ \E n \in Live \cap Stmts : \E p \in cfg.prev[n] : \E q \in cfg.prev[n] : \E v \in Names :
       v \in Out(p) /\ v \notin Out(q) /\ v \notin In(n)

(***************************************************************************)
(* Active Variables along the paths of the graph.                          *)
(***************************************************************************)
RECURSIVE References(_)
\* the names an expression references: bare names, dotted chains of bare
\* names, and the names in the parts of anything else
References(node) ==
  CASE node.type = "Name" -> {<<node.id>>}
    [] node.type = "Attribute" ->
         IF get_name(node) # <<>> THEN {get_name(node)} ELSE References(node.value)
    [] node.type = "BinOp" -> References(node.left) \cup References(node.right)
    [] node.type = "Call" ->
         References(node.func) \cup UNION { References(a) : a \in Range(node.args) }
    [] OTHER -> {}

\* the names active after the node n when the names of A are active before it
Rule(n, A) ==
  LET value == cfg.value[n]
  IN CASE value.type = "arguments" ->
            A \cup { <<value.args[i + 1].id>> : i \in analysis.wrt }
       [] value.type = "Assign" ->
            IF (value.value.type = "Call" /\ value.value.resolved = "pop")
                 \/ References(value.value) \cap A # {}
            THEN A \cup get_updated(value) ELSE A \ get_updated(value)
       [] OTHER -> A

RECURSIVE PathStates(_)
\* the pairs <<n, A>>: some path from entry to n leaves the names of A active
PathStates(S) ==
  LET new == { <<m, Rule(m, s[2])>> : s \in S, m \in Stmts } \ S
      step == { t \in new : \E s \in S : t[1] \in cfg.next[s[1]] /\ t[2] = Rule(t[1], s[2]) }
  IN IF step = {} THEN S ELSE PathStates(S \cup step)

(***************************************************************************)
(* C8: after Active Variables has run, a name v is in the stored outgoing  *)
(* set of a statement n if and only if there is a path from entry to n     *)
(* along which the rules, applied in order, leave v active: the entry      *)
(* activates the designated parameters, an assignment whose right-hand     *)
(* side is the stack pop or references an active name activates its        *)
(* targets, any other assignment de-activates them, and every other        *)
(* statement changes nothing.                                              *)
(***************************************************************************)
C8_ActivePaths ==
  (pc = "done" /\ analysis.label = "active") =>
    LET paths == PathStates({ <<cfg.entry, Rule(cfg.entry, {})>> })
    IN \A n \in Stmts : \A v \in Names :
         (HasOut(n) /\ v \in Out(n)) <=> (\E s \in paths : s[1] = n /\ v \in s[2])

\* Active Variables has run with x active on `y = x + 1; z = f(y).a`, and z is
\* in no outgoing set
C8_Deactivated ==
  /\ pc = "done" /\ analysis = [Active({0}) EXCEPT !.exit = <<{<<"x">>, <<"y">>}>>]
  /\ fn.body = <<AssignYX, AssignZAttr>>
  /\ \A n \in Stmts : <<"z">> \notin Out(n)

(***************************************************************************)
(* A tree of several functions.                                            *)
(***************************************************************************)
\* forward has returned or raised
Ended == pc = "raised" \/ (pc = "done" /\ batch.at = Len(batch.tree))

\* the annotations of the nodes of the i-th function of the tree
AnnoOf(i) ==
  IF i <= Len(batch.stores) THEN batch.stores[i]
  ELSE IF i = batch.at THEN anno ELSE <<>>

RECURSIVE Alone(_, _, _, _)
\* the annotations analysis.visit leaves when it runs on the graph g alone:
\* store is the annotations so far, todo the nodes the pending calls will visit
Alone(a, g, store, todo) ==
  IF todo = <<>> THEN store
  ELSE IF g.value[Head(todo)] = None THEN Alone(a, g, store, Tail(todo))
  ELSE LET node == Head(todo)
           before == IF hasanno(store, node, out_label(a))
                     THEN <<getanno(store, node, out_label(a))>> ELSE <<>>
           after == visit_store(a, store, g, node)
       IN IF changed(before, getanno(after, node, out_label(a)))
          THEN Alone(a, g, after, SetToSeq(g.next[node]) \o Tail(todo))
          ELSE Alone(a, g, after, Tail(todo))

\* whether CFG construction fails for the function f
Fails(f) == build_cfg(f).err # ""

(***************************************************************************)
(* C11: when forward has run over a tree of several functions and CFG      *)
(* construction has failed for one of them, that function has no           *)
(* annotation and no graph, and every other function of the tree, before   *)
(* or after the failing one, has exactly the annotations it has when       *)
(* analysed alone.                                                         *)
(***************************************************************************)
C11_BatchFailure ==
  (batch.tree # <<>> /\ Ended /\ \E i \in DOMAIN batch.tree : Fails(batch.tree[i])) =>
    /\ raised = "ValueError" => cfg.value = <<>>
    /\ \A i \in DOMAIN batch.tree :
         IF Fails(batch.tree[i]) THEN AnnoOf(i) = <<>>
         ELSE LET g == build_cfg(batch.tree[i])
              IN AnnoOf(i) = Alone(analysis, g, <<>>, <<g.entry>>)

\* construction has failed for the first function of a tree whose second
\* function it does not fail for
C11_FailedFirst ==
  /\ pc = "raised" /\ raised = "ValueError"
  /\ batch.at = 1 /\ Len(batch.tree) >= 2
  /\ ~Fails(batch.tree[2])
  /\ AnnoOf(2) = <<>>

(***************************************************************************)
(* The calls of the functions of create.py, read back.                     *)
(***************************************************************************)
\* the call of the function f has returned or raised
Called(f) == pc = "called" /\ factory.call = f

\* the reference the function was called with, as it was before the call
Given == factory.heap0[factory.node]

\* whether the object o was a bare name, or an attribute or a subscript whose
\* base was a bare name
NamedShape(o) ==
  \/ factory.heap0[o].type = "Name"
  \/ /\ factory.heap0[o].type \in {"Attribute", "Subscript"}
     /\ factory.heap0[factory.heap0[o].value].type = "Name"

\* the base name of such an object
BaseName(o) ==
  IF factory.heap0[o].type = "Name" THEN factory.heap0[o].id
  ELSE factory.heap0[factory.heap0[o].value].id

RECURSIVE Joined(_)
\* the base names of the objects of a sequence, joined in order
Joined(elts) ==
  IF elts = <<>> THEN <<>> ELSE BaseName(Head(elts)) \o Joined(Tail(elts))

\* the call returned a node made by the call, a bare name with the identifier
\* id, annotated key -> the reference the function was called with
ReturnedName(id, key) ==
  /\ factory.raised = ""
  /\ factory.result > Len(factory.heap0)
  /\ factory.heap[factory.result].type = "Name"
  /\ factory.heap[factory.result].id = id
  /\ hasanno(factory.annos, factory.result, key)
  /\ getanno(factory.annos, factory.result, key) = factory.node

(***************************************************************************)
(* C12: create_temp on a tuple whose members are any mix of bare names,    *)
(* attributes and subscripts (of a bare name) returns a bare-name node,    *)
(* annotated temp_var referencing the tuple, named by the namer from the   *)
(* members' base names joined in order; it raises TypeError, the code's    *)
(* naming error, only when some member is none of those shapes.            *)
(***************************************************************************)
C12_TempOfTuple ==
  (Called("create_temp") /\ Given.type = "Tuple") =>
    IF \A e \in Range(Given.elts) : NamedShape(e)
    THEN ReturnedName(namer_temp(NoFactory, Joined(Given.elts)), "temp_var")
    ELSE factory.raised = "TypeError" /\ factory.result = 0

\* create_temp has raised TypeError on a tuple of a bare name and an
\* attribute of a bare name
C12_MixedTupleRefused ==
  /\ Called("create_temp") /\ Given.type = "Tuple"
  /\ Len(Given.elts) = 2
  /\ factory.heap0[Given.elts[1]].type = "Name"
  /\ factory.heap0[Given.elts[2]].type = "Attribute"
  /\ NamedShape(Given.elts[2])
  /\ factory.raised = "TypeError"

RECURSIVE DottedName(_)
\* whether the object o was a bare name or a chain of attributes over one
DottedName(o) ==
  \/ factory.heap0[o].type = "Name"
  \/ factory.heap0[o].type = "Attribute" /\ DottedName(factory.heap0[o].value)

\* whether the reference the function f was called with has a shape f supports
Supports(f) ==
  CASE f = "create_grad" -> Given.type \in {"Name", "Subscript", "Attribute", "Str"}
    [] f = "create_temp_grad" ->
         \/ Given.type \in {"Name", "Str"}
         \/ Given.type = "Subscript" /\ NamedShape(factory.node)
         \/ Given.type = "Attribute" /\ DottedName(factory.node)
    [] f = "create_temp" -> NamedShape(factory.node) \/ Given.type = "Tuple"

(***************************************************************************)
(* C13: a call of create_grad, create_temp_grad or create_temp raises no   *)
(* exception other than TypeError, the code's naming error, returns no     *)
(* node when it raises, and raises TypeError when the reference it is      *)
(* given has a shape it does not support: a number or a call; for          *)
(* create_temp_grad and create_temp a subscript or attribute whose base is *)
(* not a bare name; for create_temp_grad an attribute chain through a call *)
(* or a subscript.                                                         *)
(***************************************************************************)
C13_NamingErrorOnly ==
  pc = "called" =>
    /\ factory.raised \in {"", "TypeError"}
    /\ factory.raised # "" => factory.result = 0
    /\ ~Supports(factory.call) => factory.raised = "TypeError"

\* create_temp_grad has raised AttributeError on a number
C13_AttributeError ==
  /\ Called("create_temp_grad")
  /\ Given.type = "Num"
  /\ factory.raised = "AttributeError"

(***************************************************************************)
(* Gradients of subscripts.                                                *)
(***************************************************************************)
RECURSIVE BaseOf(_), DepthOf(_), Gradable(_), GradOf(_, _), ChainOver(_, _)
\* the object under the subscripts of the object o
BaseOf(o) ==
  IF factory.heap0[o].type = "Subscript" THEN BaseOf(factory.heap0[o].value) ELSE o

\* the number of subscripts above it
DepthOf(o) ==
  IF factory.heap0[o].type = "Subscript" THEN 1 + DepthOf(factory.heap0[o].value) ELSE 0

\* the node a temporary stands in for, the object itself when it is none
StandsFor(o) ==
  IF hasanno(factory.annos0, o, "temp_var") THEN getanno(factory.annos0, o, "temp_var")
  ELSE o

\* the objects of the reference are as they were before the call: every field
\* and every annotation
Untouched ==
  /\ SubSeq(factory.heap, 1, Len(factory.heap0)) = factory.heap0
  /\ \A k \in DOMAIN factory.annos0 :
       k \in DOMAIN factory.annos /\ factory.annos[k] = factory.annos0[k]
  /\ \A k \in DOMAIN factory.annos : k[1] <= Len(factory.heap0) => k \in DOMAIN factory.annos0

\* the node r was made by the call
Made(r) == r > Len(factory.heap0) /\ r <= Len(factory.heap)

\* the node r is a name made by the call and annotated adjoint_var -> o
AdjointName(r, o) ==
  /\ Made(r)
  /\ factory.heap[r].type = "Name"
  /\ hasanno(factory.annos, r, "adjoint_var")
  /\ getanno(factory.annos, r, "adjoint_var") = o

\* whether create_grad supports the object o: a name, an attribute, a string,
\* a subscript of such, or a temporary for such
Gradable(o) ==
  IF StandsFor(o) # o THEN Gradable(StandsFor(o))
  ELSE \/ factory.heap0[o].type \in {"Name", "Attribute", "Str"}
       \/ factory.heap0[o].type = "Subscript" /\ Gradable(factory.heap0[o].value)

\* the node r is the gradient of the object o: the gradient of what o stands
\* in for when o is a temporary; a name made by the call, annotated
\* adjoint_var -> o, when o is a name or an attribute; a subscript made by the
\* call, of the gradient of o's base and with o's own index object, when o is
\* a subscript
GradOf(r, o) ==
  IF StandsFor(o) # o THEN GradOf(r, StandsFor(o))
  ELSE CASE factory.heap0[o].type = "Name" ->
              /\ AdjointName(r, o)
              /\ factory.heap[r].id = namer_grad(NoFactory, factory.heap0[o].id, factory.tangent)
         [] factory.heap0[o].type = "Attribute" -> AdjointName(r, o)
         [] factory.heap0[o].type = "Subscript" ->
              /\ Made(r)
              /\ factory.heap[r].type = "Subscript"
              /\ factory.heap[r].slice = factory.heap0[o].slice
              /\ GradOf(factory.heap[r].value, factory.heap0[o].value)
         [] OTHER -> FALSE

\* the node r is a chain of subscripts made by the call, as deep as the
\* subscripts of the object o and with their index objects, over a name made
\* by the call and annotated adjoint_var -> what the base of o stands for
ChainOver(r, o) ==
  IF factory.heap0[o].type = "Subscript"
  THEN /\ Made(r)
       /\ factory.heap[r].type = "Subscript"
       /\ factory.heap[r].slice = factory.heap0[o].slice
       /\ ChainOver(factory.heap[r].value, factory.heap0[o].value)
  ELSE AdjointName(r, StandsFor(o))

\* create_grad was called with subscripts of a bare name
GradOfSubscript ==
  /\ Called("create_grad")
  /\ Given.type = "Subscript"
  /\ factory.heap0[BaseOf(factory.node)].type = "Name"

(***************************************************************************)
(* C14, as stated: create_grad on subscripts of a bare name, of any depth, *)
(* returns a chain of subscripts of the same depth, with the identical     *)
(* index objects, over a fresh name annotated adjoint_var referencing the  *)
(* base, or the node the base stands in for when it carries temp_var; and  *)
(* the call leaves every field and annotation of the reference unchanged.  *)
(***************************************************************************)
C14_Original ==
  GradOfSubscript =>
    /\ factory.raised = ""
    /\ ChainOver(factory.result, factory.node)
    /\ Untouched

(***************************************************************************)
(* C14, amended: create_grad on subscripts of a bare name, of any depth,   *)
(* leaves every field and annotation of the reference unchanged; it        *)
(* returns subscripts made by the call, with the identical index objects,  *)
(* over the gradient of the base: a fresh name annotated adjoint_var       *)
(* referencing the base, or, when the base carries temp_var, the gradient  *)
(* of the node it stands in for (itself a chain of subscripts when that    *)
(* node is a subscript); it raises TypeError when the base stands in for a *)
(* node create_grad does not support, such as a tuple.                     *)
(***************************************************************************)
C14_GradOfSubscript ==
  GradOfSubscript =>
    /\ Untouched
    /\ IF Gradable(factory.node)
       THEN factory.raised = "" /\ GradOf(factory.result, factory.node)
       ELSE factory.raised = "TypeError" /\ factory.result = 0

\* create_grad has returned the gradient of subscripts, two deep, of a
\* temporary that stands in for a subscript
C14_Witness ==
  /\ GradOfSubscript
  /\ DepthOf(factory.node) = 2
  /\ StandsFor(BaseOf(factory.node)) # BaseOf(factory.node)
  /\ factory.heap0[StandsFor(BaseOf(factory.node))].type = "Subscript"
  /\ factory.raised = ""

(***************************************************************************)
(* Straight-line functions.                                                *)
(***************************************************************************)
\* the body of the function holds plain statements only
StraightLine ==
  fn # NoFunction /\ \A i \in DOMAIN fn.body : fn.body[i].type \notin CONTROL_FLOW

\* every node other than entry and exit has exactly one predecessor and
\* exactly one successor, entry has one successor and exit one predecessor
SingleChain ==
  /\ \A n \in Nodes \ {cfg.entry, cfg.exit} :
       Cardinality(cfg.prev[n]) = 1 /\ Cardinality(cfg.next[n]) = 1
  /\ \A n \in Nodes \ {cfg.exit} : cfg.next[n] = {n + 1}
  /\ \A n \in Nodes \ {cfg.entry} : cfg.prev[n] = {n - 1}
  /\ cfg.prev[cfg.entry] = {} /\ cfg.next[cfg.exit] = {}

(***************************************************************************)
(* C15, as stated: for a function whose body is N plain statements         *)
(* (N >= 0) the CFG has N + 1 nodes, the exit included, and they form a    *)
(* single chain.                                                           *)
(***************************************************************************)
C15_Original ==
  (pc = "built" /\ StraightLine) =>
    /\ Cardinality(Nodes) = Len(fn.body) + 1
    /\ SingleChain

(***************************************************************************)
(* C15, amended: for a function whose body is N plain statements (N >= 0)  *)
(* the CFG has N + 2 nodes: the entry, which wraps the parameter list, one *)
(* node for each statement, in the order of the body, and the exit; they   *)
(* form a single chain from the entry to the exit: every node other than   *)
(* entry and exit has exactly one predecessor and exactly one successor.   *)
(***************************************************************************)
C15_StraightLine ==
  (pc = "built" /\ StraightLine) =>
    /\ Cardinality(Nodes) = Len(fn.body) + 2
    /\ cfg.entry = 1 /\ cfg.value[cfg.entry] = fn.args
    /\ cfg.exit = Len(fn.body) + 2 /\ cfg.value[cfg.exit] = None
    /\ \A i \in DOMAIN fn.body : cfg.value[i + 1] = fn.body[i]
    /\ SingleChain

\* a function of three plain statements was built
C15_Witness ==
  pc = "built" /\ StraightLine /\ Len(fn.body) = 3 /\ Cardinality(Nodes) = 5

(***************************************************************************)
(* The else clause of a loop.                                              *)
(***************************************************************************)
\* the nodes of the else clause of the loop of record r
ElseNodes(r) == (r.bodyHi + 1)..r.elseHi

\* the first statement of the else clause of the loop of record r is one
\* that has a node of its own: a plain statement, the test of a conditional
\* or the header of a loop
ElseStartsWithNode(r) ==
  r.hasElse /\ r.elseFirst \notin {"Break", "Continue", "Try"}

\* the claim for the loop of log record i
LoopElse(i) ==
  LET r == cfg.log[i] IN
  /\ ElseStartsWithNode(r) =>
       /\ r.bodyHi + 1 \in ElseNodes(r)
       /\ r.header \in cfg.prev[r.bodyHi + 1]
  /\ \A b \in Range(r.breaks) : cfg.next[b] \cap ElseNodes(r) = {}
  /\ r.hasElse => Range(r.elseExit) \subseteq ElseNodes(r)
  /\ ~r.hasElse => r.elseExit = <<r.header>>
  /\ \A j \in Records("follow") :
       (cfg.log[j].of = i /\ ~cfg.log[j].loop) =>
          cfg.prev[cfg.log[j].node] = Range(r.elseExit) \cup Range(r.breaks)

(***************************************************************************)
(* C16: for both loop shapes the else clause of a loop is part of the CFG: *)
(* its first statement has the loop header as predecessor, no node         *)
(* collected by a break in the body has an edge into the else clause, and  *)
(* the statement following the loop has as predecessors exactly the exit   *)
(* nodes of the else clause (the header itself when there is no else       *)
(* clause) together with every node collected by a break of that loop.     *)
(***************************************************************************)
C16_LoopElse ==
  pc = "built" => \A i \in Records("loop") : LoopElse(i)

\* an iterator-based loop with an else clause, followed by a statement, was
\* built, and no node was made for the else clause
C16_ForElseIgnored ==
  /\ pc = "built"
  /\ \E i \in Records("loop") :
       /\ cfg.log[i].kind = "For"
       /\ cfg.log[i].hasElse
       /\ ElseNodes(cfg.log[i]) = {}
       /\ \E j \in Records("follow") : cfg.log[j].of = i

(***************************************************************************)
(* The finally clause of an exception-handling block.                      *)
(***************************************************************************)
\* the finally clause of the block of record r begins with a node of its
\* own: a plain statement, the test of a conditional or the header of a loop
FinallyStartsWithNode(r) ==
  r.finalFirst \notin {"", "Break", "Continue", "Try"}

\* the nodes of the body, the handlers and the else clause of the block
GuardedNodes(r) == r.lo..(r.finalLo - 1)

\* the nodes some path from node n leads to that does not pass through the
\* node cut
ReachAvoiding(n, cut) ==
  Reach([m \in DOMAIN cfg.next |-> IF m = cut THEN {} ELSE cfg.next[m] \ {cut}], n)

\* the nodes outside the block of record r that a path from one of its
\* guarded nodes gets to without passing through the first node of its
\* finally clause
Escapes(r) ==
  UNION { ReachAvoiding(n, r.finalLo) : n \in GuardedNodes(r) } \ (r.lo..r.hi)

(***************************************************************************)
(* C17: for every exception-handling block that has a finally clause, the  *)
(* first node of the finally clause dominates every path out of the block: *)
(* every path from a node of its body, handlers or else clause to a node   *)
(* outside the block passes through it, also when the block is nested in a *)
(* loop and its body, a handler or its else clause holds break or          *)
(* continue.                                                               *)
(***************************************************************************)
C17_FinallyDominates ==
  pc = "built" =>
    \A i \in Records("try") :
      FinallyStartsWithNode(cfg.log[i]) => Escapes(cfg.log[i]) = {}

\* a block with a finally clause was built in the body of a loop, and a node
\* of its body that a break collected has an edge that leaves the block
C17_BreakSkipsFinally ==
  /\ pc = "built"
  /\ \E i \in Records("try") : \E j \in Records("loop") :
       /\ FinallyStartsWithNode(cfg.log[i])
       /\ cfg.log[i].lo \in BodyNodes(cfg.log[j])
       /\ \E b \in Range(cfg.log[j].breaks) \cap GuardedNodes(cfg.log[i]) :
            cfg.next[b] \ (cfg.log[i].lo..cfg.log[i].hi) # {}

(***************************************************************************)
(* The else clause of an exception-handling block.                         *)
(***************************************************************************)
\* the nodes that have an edge to node n
Incoming(n) == { m \in Nodes : n \in cfg.next[m] }

\* the nodes of the else clause of the block of record r
TryElseNodes(r) == r.elseLo..(r.finalLo - 1)

\* the block of record r has a handler and an else clause that begins with a
\* node of its own: a plain statement, the test of a conditional or the
\* header of a loop
HandledWithElse(r) ==
  r.handlerCount >= 1 /\ r.elseFirst \notin {"", "Break", "Continue", "Try"}

(***************************************************************************)
(* C18, as stated: in an exception-handling block with at least one        *)
(* handler and a non-empty else clause, the predecessors of the first      *)
(* statement of the else clause are the exit nodes of every handler plus   *)
(* the exit nodes of the body.                                             *)
(***************************************************************************)
C18_Original ==
  pc = "built" =>
    \A i \in Records("try") :
      LET r == cfg.log[i] IN
      HandledWithElse(r) =>
        cfg.prev[r.elseLo] = Range(r.handlerExits) \cup Range(r.bodyExit)

(***************************************************************************)
(* C18, amended: in an exception-handling block with at least one handler  *)
(* and a non-empty else clause, the else clause is visited from the saved  *)
(* body exit alone: the nodes outside the else clause that have an edge to *)
(* its first statement are exactly the exit nodes of the body, no exit     *)
(* node of a handler is among them, and its predecessors outside the else  *)
(* clause are the exit nodes of the body that are reachable from entry.    *)
(* The exits of the handlers join the exits of the else clause only after  *)
(* the else clause.                                                        *)
(***************************************************************************)
C18_ElseFromBody ==
  pc = "built" =>
    \A i \in Records("try") :
      LET r == cfg.log[i] IN
      HandledWithElse(r) =>
        /\ r.elseLo \in TryElseNodes(r)
        /\ Incoming(r.elseLo) \ TryElseNodes(r) = Range(r.bodyExit)
        /\ \A h \in Range(r.handlerExits) \ Range(r.bodyExit) : r.elseLo \notin cfg.next[h]
        /\ cfg.prev[r.elseLo] \ TryElseNodes(r) =
             Range(r.bodyExit) \cap Reach(cfg.next, cfg.entry)

\* a block was built whose handler and body both have an exit node, and the
\* first statement of its else clause has the exit of the body as its only
\* predecessor
C18_Witness ==
  /\ pc = "built"
  /\ \E i \in Records("try") :
       /\ HandledWithElse(cfg.log[i])
       /\ Range(cfg.log[i].handlerExits) \ Range(cfg.log[i].bodyExit) # {}
       /\ cfg.log[i].bodyExit # <<>>
       /\ cfg.prev[cfg.log[i].elseLo] = Range(cfg.log[i].bodyExit)

(***************************************************************************)
(* The handlers of an exception-handling block.                            *)
(***************************************************************************)
\* the nodes of the handler of record h
HandlerNodes(h) == h.lo..h.hi

\* the handler of record h begins with a node of its own: a plain
\* statement, the test of a conditional or the header of a loop
HandlerStartsWithNode(h) == h.first \notin {"Break", "Continue", "Try"}

\* the claim for the exception-handling block of record r
Alternatives(r) ==
  /\ \A k \in DOMAIN r.handlers :
       LET h == r.handlers[k] IN
       /\ HandlerStartsWithNode(h) =>
            /\ h.lo \in HandlerNodes(h)
            /\ cfg.prev[h.lo] \ HandlerNodes(h) = Range(r.bodyExit)
       /\ h.from = r.bodyExit
       /\ \A l \in DOMAIN r.handlers \ {k} :
            \A m \in HandlerNodes(h) : cfg.next[m] \cap HandlerNodes(r.handlers[l]) = {}
  /\ r.elseFirst = "" => r.elseExit = r.bodyExit
  /\ (r.elseFirst \notin {"", "Break", "Continue", "Try"}) =>
       Incoming(r.elseLo) \ TryElseNodes(r) = Range(r.bodyExit)

(***************************************************************************)
(* C19: in an exception-handling block with several handlers each handler  *)
(* is an alternative starting from the same snapshot: the predecessors of  *)
(* every handler's first statement are exactly the exit nodes the body had *)
(* when it finished, no node of one handler has an edge to a node of       *)
(* another handler, and visiting a handler (one that holds conditionals,   *)
(* loops or nested exception-handling blocks included) does not change the *)
(* snapshot used for the later handlers and for the rest of the block.     *)
(***************************************************************************)
C19_HandlersAlternatives ==
  pc = "built" =>
    \A i \in Records("try") :
      cfg.log[i].handlerCount >= 2 => Alternatives(cfg.log[i])

\* a block with two handlers was built after a break: the exit of its body
\* has an edge to the first statement of each handler, which has no
\* predecessor
C19_UnreachableBlock ==
  /\ pc = "built"
  /\ \E i \in Records("try") :
       LET r == cfg.log[i] IN
       /\ r.handlerCount = 2
       /\ r.bodyExit # <<>>
       /\ \A k \in DOMAIN r.handlers :
            /\ HandlerStartsWithNode(r.handlers[k])
            /\ Incoming(r.handlers[k].lo) \ HandlerNodes(r.handlers[k]) = Range(r.bodyExit)
            /\ cfg.prev[r.handlers[k].lo] = {}

(***************************************************************************)
(* Revisits.                                                               *)
(***************************************************************************)
\* the outgoing set the visit of node n would store
NextOut(n) == getanno(visit_store(analysis, anno, cfg, n), n, out_label(analysis))

\* the call on top of the stack is about to revisit a node
AtRevisit == AtNode /\ HasOut(Top.node)

\* the step, for node n: the stored outgoing set does not lose a fact under
\* union and does not gain one under intersection, and the revisit of n that
\* leaves it as it was returns without a call on a successor
MonotoneAt(n) ==
  (hasanno(anno, n, out_label(analysis)) /\ hasanno(anno', n, out_label(analysis))) =>
    LET old == getanno(anno, n, out_label(analysis))
        new == getanno(anno', n, out_label(analysis))
    IN /\ analysis.op = "or" => old \subseteq new
       /\ analysis.op = "and" => new \subseteq old
       /\ (AtNode /\ Top.node = n /\ new = old) =>
            /\ stack' = Pop(stack)
            /\ visits' = visits

(***************************************************************************)
(* C20: during one propagation run every update is monotone: across the    *)
(* revisits of a node its stored outgoing set never loses a fact under the *)
(* union meet (reaching definitions, active variables) and never gains one *)
(* under the intersection meet (defined variables); and a revisit that     *)
(* leaves the outgoing set equal to the stored one does not propagate to   *)
(* the successors of the node.                                             *)
(***************************************************************************)
C20_MonotoneUpdates == [][\A n \in Stmts : MonotoneAt(n)]_vars

\* a revisit is about to take a fact out of the stored outgoing set of a
\* node, under the intersection meet
C20_Witness ==
  /\ AtRevisit
  /\ analysis.op = "and"
  /\ NextOut(Top.node) # Out(Top.node)
  /\ NextOut(Top.node) \subseteq Out(Top.node)

(***************************************************************************)
(* The order of the successors.                                            *)
(***************************************************************************)
RECURSIVE AloneRun(_, _, _, _, _)
\* the run Alone makes, followed call by call: the number of calls of
\* Forward.visit it makes, the calls on the exit node included, and whether
\* one of those raises (KeyError for a predecessor of the exit that has no
\* outgoing set, IndexError for an exit that has no predecessor)
AloneRun(a, g, store, todo, calls) ==
  IF todo = <<>> THEN [visits |-> calls, raised |-> FALSE]
  ELSE IF g.value[Head(todo)] = None
  THEN IF \/ g.prev[Head(todo)] = {}
          \/ \E p \in g.prev[Head(todo)] : ~hasanno(store, p, out_label(a))
       THEN [visits |-> calls + 1, raised |-> TRUE]
       ELSE AloneRun(a, g, store, Tail(todo), calls + 1)
  ELSE LET node == Head(todo)
           before == IF hasanno(store, node, out_label(a))
                     THEN <<getanno(store, node, out_label(a))>> ELSE <<>>
           after == visit_store(a, store, g, node)
       IN IF changed(before, getanno(after, node, out_label(a)))
          THEN AloneRun(a, g, after, SetToSeq(g.next[node]) \o Tail(todo), calls + 1)
          ELSE AloneRun(a, g, after, Tail(todo), calls + 1)

\* the annotations of the run that takes the successors of every node in one
\* fixed order
FixedOrder == Alone(analysis, cfg, <<>>, <<cfg.entry>>)

\* the function-level result that goes with them: the meet of the outgoing
\* sets of the predecessors of the exit
FixedOrderExit ==
  <<Meet({ getanno(FixedOrder, p, out_label(analysis)) : p \in cfg.prev[cfg.exit] })>>

\* a propagation run from entry has returned
Complete == pc = "done" /\ analysis.label # "" /\ batch.tree = <<>>

(***************************************************************************)
(* C21: the result of an analysis does not depend on the order in which    *)
(* the engine visits the successors of a node: every complete propagation  *)
(* run from entry on a given CFG ends with the incoming, outgoing,         *)
(* generated and killed sets at every statement, and the function-level    *)
(* result at the exit, that the run in one fixed order ends with; so any   *)
(* two complete runs end with identical ones.                              *)
(***************************************************************************)
C21_OrderIndependent ==
  Complete =>
    /\ anno = FixedOrder
    /\ analysis.exit = FixedOrderExit

\* a complete run that made another number of calls of Forward.visit than
\* the run in the fixed order, which is complete too, and ended with the same
\* sets
C21_Witness ==
  /\ Complete
  /\ ~AloneRun(analysis, cfg, <<>>, <<cfg.entry>>, 0).raised
  /\ visits # AloneRun(analysis, cfg, <<>>, <<cfg.entry>>, 0).visits
  /\ anno = FixedOrder
  /\ analysis.exit = FixedOrderExit

=============================================================================
